---- MODULE Spec2Model ----
(***************************************************************************)
(* garmini: the Garmin serial link stack of src/garmin.c (framing, link    *)
(* session, handshake, record transfer) driven by main of src/garmini.c.   *)
(*                                                                         *)
(* Bytes are naturals 0..255, a byte stream is a sequence of bytes, a      *)
(* packet is a record [id, size, data] as garmin_packet_t.  The data field *)
(* holds the bytes the program has written into the buffer so far; a read  *)
(* of a shorter packet overwrites a prefix and leaves the rest in place.   *)
(*                                                                         *)
(* The link functions exist twice, in src/garmin.c and in src/garmini.c;   *)
(* unit says which copy runs.  In src/garmin.c a packet with another id    *)
(* than the awaited one draws a warning and the wait goes on; the copy in  *)
(* src/garmini.c ends the process there.  sizeof of a pointer is taken as  *)
(* 8 (LP64) and the host as little-endian.                                 *)
(***************************************************************************)
EXTENDS Integers, Sequences, FiniteSets, TLC

(* ---------------------------------------------------------------- bounds *)

\* longest payload enumerated exhaustively in the framing specification
MaxLen == 2
\* largest record count the device announces in Pid_Records
MaxRecords == 2
\* read waits that time out and are counted
MaxTimeouts == 1
\* packets the device sends while the host expects another id
MaxJunk == 1
\* calls of warning() that are counted
MaxWarnings == 1
\* packets kept in the packet log (the most recent ones)
LogWindow == 4
\* entries of a protocol array behind P000, L001, A010, in the resolver's
\* specification
MaxProtocols == 3
\* points of a track handed to garmini_write_igc
MaxPoints == 2

(* ------------------------------------------------------ program constants *)

DLE == 16
ETX == 3
CR == 13
LF == 10
EOF == 0 - 1

Pid_Ack_Byte == 6
Pid_Nak_Byte == 21
Pid_Protocol_Array == 253
Pid_Product_Rqst == 254
Pid_Product_Data == 255
Pid_Ext_Product_Data == 248
Pid_Command_Data == 10
Pid_Xfer_Cmplt == 12
Pid_Records == 27
Pid_Trk_Data == 34
Pid_Trk_Hdr == 99

\* the tags are the characters 'P', 'L', 'A', 'D'
Tag_Phys_Prot_Id == 80
Tag_Link_Prot_Id == 76
Tag_Appl_Prot_Id == 65
Tag_Data_Prot_Id == 68

Cmnd_Transfer_Trk == 6
Cmnd_Turn_Off_Pwr == 8

\* the encoding of the float nearest to 1.0e25, the value a device sends for
\* a point without an altitude (0x69045951)
Float_1e25 == 1761892689

(* ----------------------------------------------------------------- bytes *)

RECURSIVE Sum(_)
Sum(s) == IF s = <<>> THEN 0 ELSE Head(s) + Sum(Tail(s))

Take(s, n) == SubSeq(s, 1, IF n < Len(s) THEN n ELSE Len(s))
Drop(s, n) == SubSeq(s, n + 1, Len(s))

\* *((uint16_t *) data) on a little-endian host, stored and loaded
U16LE(v) == <<v % 256, (v \div 256) % 256>>
LoadU16(data) == data[1] + 256 * data[2]

\* storing n bytes at the start of a buffer keeps the bytes behind them
Overwrite(old, bytes) == bytes \o Drop(old, Len(bytes))

Packet(id, data) == [id |-> id, size |-> Len(data), data |-> data]
Payload(p) == Take(p.data, p.size)

(* --------------------------------------------------- garmin_write_packet *)

\* (mutant) a writer that never doubles a byte
no_stuff(v) == <<v % 256>>

\* *p++ = v; if (v == DLE) *p++ = DLE;  the byte stored is v truncated to
\* unsigned char, the test is on v itself
Stuff(v) == IF v = DLE THEN <<v % 256, DLE>> ELSE <<v % 256>>

RECURSIVE StuffAll(_)
StuffAll(s) == IF s = <<>> THEN <<>> ELSE Stuff(Head(s)) \o StuffAll(Tail(s))

\* unsigned char checksum = ~(id + size + data[..]) + 1
Checksum(id, size, data) == (256 - ((id + size + Sum(data)) % 256)) % 256

\* (mutant) a writer that forgets to double DLE bytes of the payload
write_packet_unstuffed(p) ==
    <<DLE>> \o Stuff(p.id) \o Stuff(p.size)
            \o Take(p.data, p.size)
            \o Stuff(Checksum(p.id % 256, p.size % 256, Take(p.data, p.size)))
            \o <<DLE, ETX>>

\* the frame garmin_write_packet hands to write(2)
garmin_write_packet(p) ==
    <<DLE>> \o Stuff(p.id) \o Stuff(p.size)
            \o StuffAll(Take(p.data, p.size))
            \o Stuff(Checksum(p.id % 256, p.size % 256, Take(p.data, p.size)))
            \o <<DLE, ETX>>

(* ---------------------------------------------------- garmin_read_packet *)

\* garmin_getc on the bytes that arrive before the next read wait times out:
\* the byte at pos, or EOF when the wait yields no data
garmin_getc(buf, pos) ==
    IF pos > Len(buf) THEN [c |-> EOF, pos |-> pos]
    ELSE [c |-> buf[pos], pos |-> pos + 1]

\* (mutant) a garmin_getc_dle that takes a DLE whatever follows it
getc_dle_lenient(buf, a) ==
    IF a.c = DLE /\ garmin_getc(buf, a.pos).c = DLE
    THEN [c |-> a.c, pos |-> garmin_getc(buf, a.pos).pos, bad |-> FALSE]
    ELSE [c |-> a.c, pos |-> a.pos, bad |-> FALSE]

\* garmin_getc_dle after its first garmin_getc returned a: a DLE must be
\* followed by a second DLE, else error("expected DLE")
getc_dle_after(buf, a) ==
    IF a.c = DLE
    THEN [c |-> a.c, pos |-> garmin_getc(buf, a.pos).pos,
          bad |-> garmin_getc(buf, a.pos).c # DLE]
    ELSE [c |-> a.c, pos |-> a.pos, bad |-> FALSE]

garmin_getc_dle(buf, pos) == getc_dle_after(buf, garmin_getc(buf, pos))

Result(st, pos, buf, id, size, data) ==
    [st |-> st, rest |-> Drop(buf, pos - 1),
     pkt |-> [id |-> id, size |-> size, data |-> data]]

\* the payload loop of garmin_read_packet (lines 208-213): n more bytes
\* through garmin_getc_dle, from pos on; ReadByte is one turn with its byte g
RECURSIVE ReadData(_, _, _, _)
RECURSIVE ReadByte(_, _, _, _)
ReadByte(buf, n, acc, g) ==
    IF g.bad THEN [st |-> "expected DLE", pos |-> g.pos, data |-> acc]
    ELSE IF g.c = EOF THEN [st |-> "incomplete packet", pos |-> g.pos, data |-> acc]
    ELSE ReadData(buf, g.pos, n - 1, Append(acc, g.c))

ReadData(buf, pos, n, acc) ==
    IF n = 0 THEN [st |-> "ok", pos |-> pos, data |-> acc]
    ELSE ReadByte(buf, n, acc, garmin_getc_dle(buf, pos))

\* (mutant) a reader that takes the end of the data for the ETX
read_packet_etx_eof_ok(buf, id, size, data, e) ==
    IF e.c = EOF THEN Result("ok", e.pos, buf, id, size, data)
    ELSE IF e.c # ETX THEN Result("expected ETX", e.pos, buf, id, size, data)
    ELSE Result("ok", e.pos, buf, id, size, data)

\* lines 225-231: the second trailer byte e
read_packet_etx(buf, id, size, data, e) ==
    IF e.c = EOF THEN Result("incomplete packet", e.pos, buf, id, size, data)
    ELSE IF e.c # ETX THEN Result("expected ETX", e.pos, buf, id, size, data)
    ELSE Result("ok", e.pos, buf, id, size, data)

\* lines 220-224: the first trailer byte d, read raw
read_packet_dle(buf, id, size, data, d) ==
    IF d.c = EOF THEN Result("incomplete packet", d.pos, buf, id, size, data)
    ELSE IF d.c # DLE THEN Result("expected DLE", d.pos, buf, id, size, data)
    ELSE read_packet_etx(buf, id, size, data, garmin_getc(buf, d.pos))

\* (mutant) a reader that accepts any checksum byte
read_packet_checksum_any(buf, id, size, data, payload, g) ==
    IF g.bad THEN Result("expected DLE", g.pos, buf, id, size, data)
    ELSE IF g.c = EOF THEN Result("incomplete packet", g.pos, buf, id, size, data)
    ELSE read_packet_dle(buf, id, size, data, garmin_getc(buf, g.pos))

\* lines 214-219: the checksum byte g against the bytes read
read_packet_checksum(buf, id, size, data, payload, g) ==
    IF g.bad THEN Result("expected DLE", g.pos, buf, id, size, data)
    ELSE IF g.c = EOF THEN Result("incomplete packet", g.pos, buf, id, size, data)
    ELSE IF g.c # Checksum(id, size, payload)
    THEN Result("checksum failed", g.pos, buf, id, size, data)
    ELSE read_packet_dle(buf, id, size, data, garmin_getc(buf, g.pos))

\* lines 207-213: the payload rd lands at the start of packet->data
read_packet_data(buf, old, id, size, rd) ==
    IF rd.st # "ok"
    THEN Result(rd.st, rd.pos, buf, id, size, Overwrite(old.data, rd.data))
    ELSE read_packet_checksum(buf, id, size, Overwrite(old.data, rd.data),
                              rd.data, garmin_getc_dle(buf, rd.pos))

\* lines 203-206: the size byte g
read_packet_size(buf, old, id, g) ==
    IF g.bad THEN Result("expected DLE", g.pos, buf, id, 0, old.data)
    ELSE IF g.c = EOF THEN Result("incomplete packet", g.pos, buf, id, 0, old.data)
    ELSE read_packet_data(buf, old, id, g.c, ReadData(buf, g.pos, g.c, <<>>))

\* lines 199-202: the id byte g
read_packet_id(buf, old, g) ==
    IF g.bad THEN Result("expected DLE", g.pos, buf, 0, 0, old.data)
    ELSE IF g.c = EOF THEN Result("incomplete packet", g.pos, buf, 0, 0, old.data)
    ELSE read_packet_size(buf, old, g.c, garmin_getc_dle(buf, g.pos))

\* lines 195-198: the first byte c0 is taken off the line and not looked at
read_packet_first(buf, old, c0) ==
    IF c0.c = EOF THEN Result("eof", c0.pos, buf, 0, 0, old.data)
    ELSE read_packet_id(buf, old, garmin_getc_dle(buf, c0.pos))

\* garmin_read_packet(garmin, packet) with old the previous content of
\* *packet.  st is "ok" (the packet is returned), "eof" (EOF is returned) or
\* the message of the fatal error.  memset(packet, 0, sizeof packet) clears
\* sizeof(garmin_packet_t *) bytes: id and size (LP64), never data.
garmin_read_packet(buf, old) == read_packet_first(buf, old, garmin_getc(buf, 1))

(* ------------------------------------------------------------ packet log *)

NoPacket == [id |-> 0, size |-> 0, data |-> <<>>]

\* garmin_log_packet: direction, id and the size payload bytes.  The model
\* keeps the LogWindow most recent lines.
LogLine(direction, p) == [dir |-> direction, id |-> p.id, data |-> Payload(p)]

garmin_log_packet(lg, direction, p) ==
    IF Len(lg) >= LogWindow
    THEN Append(Tail(lg), LogLine(direction, p))
    ELSE Append(lg, LogLine(direction, p))

(* ----------------------------------------------------------- link layer *)

\* (mutant) an ack that names the packet in one byte
ack_one_byte(p) == [id |-> Pid_Ack_Byte, size |-> 1, data |-> <<p.id % 256>>]

\* the ack packet garmin_read_packet_ack builds for a received packet
AckFor(p) == [id |-> Pid_Ack_Byte, size |-> 2, data |-> U16LE(p.id)]

\* (mutant) read_packet_ack that acknowledges nothing
read_packet_ack_silent(r, lg) ==
    [st |-> r.st, pkt |-> r.pkt, rest |-> r.rest, wrote |-> <<>>,
     log |-> IF r.st = "ok" THEN garmin_log_packet(lg, "<", r.pkt) ELSE lg]

\* garmin_read_packet_ack lines 273-280, r being what garmin_read_packet
\* returned: wrote is the frames handed to write(2)
read_packet_ack_after(r, lg) ==
    IF r.st = "ok"
    THEN [st |-> r.st, pkt |-> r.pkt, rest |-> r.rest,
          wrote |-> <<garmin_write_packet(AckFor(r.pkt))>>,
          log |-> garmin_log_packet(garmin_log_packet(lg, "<", r.pkt),
                                    ">", AckFor(r.pkt))]
    ELSE [st |-> r.st, pkt |-> r.pkt, rest |-> r.rest, wrote |-> <<>>, log |-> lg]

\* garmin_read_packet_ack: it returns EOF when st = "eof" and pkt.id when
\* st = "ok"; any other st is the fatal error that ended the process
garmin_read_packet_ack(buf, old, lg) ==
    read_packet_ack_after(garmin_read_packet(buf, old), lg)

\* the value garmin_read_packet_ack returns
ReturnOf(r) == IF r.st = "eof" THEN EOF ELSE r.pkt.id

\* (mutant) an ack check that never looks at the id of the reply
ack_check_any_id(ack, p) ==
    IF ack.size < 1 THEN "ack packet too short"
    ELSE IF (ack.size = 1 /\ ack.data[1] # p.id)
            \/ (ack.size = 2 /\ LoadU16(ack.data) # p.id)
    THEN "ack to wrong packet!"
    ELSE ""

\* the checks of garmin_write_packet_ack on the packet it read: the message
\* of the fatal error, or "" when the function returns
ack_check(ack, p) ==
    IF ack.id # Pid_Ack_Byte THEN "expected ack packet"
    ELSE IF ack.size < 1 THEN "ack packet too short"
    ELSE IF (ack.size = 1 /\ ack.data[1] # p.id)
            \/ (ack.size = 2 /\ LoadU16(ack.data) # p.id)
    THEN "ack to wrong packet!"
    ELSE ""

\* (mutant) write_packet_ack that does not look at the reply
write_packet_ack_unchecked(r, p, lg) ==
    [err |-> IF r.st \in {"ok", "eof"} THEN "" ELSE r.st,
     st |-> r.st, ack |-> r.pkt, rest |-> r.rest,
     log |-> IF r.st = "ok" THEN garmin_log_packet(lg, "<", r.pkt) ELSE lg]

\* garmin_write_packet_ack lines 294-300, r being what garmin_read_packet
\* made of the reply.  A fatal error inside garmin_read_packet ends the
\* process there; on EOF the checks run on the cleared ack (id 0).
write_packet_ack_after(r, p, lg) ==
    IF r.st \notin {"ok", "eof"}
    THEN [err |-> r.st, st |-> r.st, ack |-> r.pkt, rest |-> r.rest, log |-> lg]
    ELSE [err |-> ack_check(r.pkt, p), st |-> r.st, ack |-> r.pkt, rest |-> r.rest,
          log |-> IF r.st = "ok" THEN garmin_log_packet(lg, "<", r.pkt) ELSE lg]

\* the second half of garmin_write_packet_ack, after the write: one packet
\* is read into the local ack and checked
garmin_write_packet_ack_reply(buf, p, lg) ==
    write_packet_ack_after(garmin_read_packet(buf, NoPacket), p, lg)

(* ------------------------------------------------- protocol capabilities *)

\* Protocol_Data_Type: one tag byte and a packed little-endian uint16
RECURSIVE Protocols(_)
Protocols(bytes) ==
    IF Len(bytes) < 3 THEN <<>>
    ELSE <<[tag |-> bytes[1], data |-> bytes[2] + 256 * bytes[3]]>>
         \o Protocols(Drop(bytes, 3))

\* (mutant) a search that compares the tag only
grep_protocol_tag_only(ps, tag, data) ==
    \E k \in 1..Len(ps) : ps[k].tag = tag

\* garmin_grep_protocol(garmin, tag, data) # 0
garmin_grep_protocol(ps, tag, data) ==
    \E k \in 1..Len(ps) : ps[k].tag = tag /\ ps[k].data = data

\* the first failed check of garmin_new lines 352-355, or ""
verify_protocols(ps) ==
    IF ~garmin_grep_protocol(ps, Tag_Link_Prot_Id, 1)
    THEN "device does not support Link Protocol L001"
    ELSE IF ~garmin_grep_protocol(ps, Tag_Appl_Prot_Id, 10)
    THEN "device does not support Device Command Protocol A010"
    ELSE ""

NoProtocol == [tag |-> 0, data |-> 0]

supported_product_ids ==
    {13, 18, 22, 23, 24, 25, 29, 31, 35, 36, 39, 41, 42, 44, 45, 47, 48, 49,
     50, 53, 55, 56, 59, 61, 62, 71, 72, 73, 74, 76, 77, 87, 88, 95, 96, 97,
     100, 105, 106, 112}

\* (mutant) a scan that stops at the end of the array with what it has
RECURSIVE scan_to_the_end(_, _, _, _)
scan_to_the_end(ps, k, hdr, dat) ==
    IF k > Len(ps) THEN [ok |-> TRUE, trk_hdr |-> hdr, trk_data |-> dat]
    ELSE IF ps[k].tag = Tag_Appl_Prot_Id /\ ps[k].data = 300
    THEN IF k + 1 > Len(ps) THEN [ok |-> TRUE, trk_hdr |-> hdr, trk_data |-> dat]
         ELSE scan_to_the_end(ps, k + 2, hdr, ps[k + 1])
    ELSE IF ps[k].tag = Tag_Appl_Prot_Id /\ ps[k].data \in {301, 302}
    THEN IF k + 2 > Len(ps) THEN [ok |-> TRUE, trk_hdr |-> hdr, trk_data |-> dat]
         ELSE scan_to_the_end(ps, k + 3, ps[k + 1], ps[k + 2])
    ELSE scan_to_the_end(ps, k + 1, hdr, dat)

\* the scan of garmin_transfer_trk over the protocol array from entry k
RECURSIVE ScanProtocols(_, _, _, _)
ScanProtocols(ps, k, hdr, dat) ==
    IF k > Len(ps) THEN [ok |-> TRUE, trk_hdr |-> hdr, trk_data |-> dat]
    ELSE IF ps[k].tag = Tag_Appl_Prot_Id /\ ps[k].data = 300
    THEN IF k + 1 > Len(ps) THEN [ok |-> FALSE, trk_hdr |-> hdr, trk_data |-> dat]
         ELSE ScanProtocols(ps, k + 2, hdr, ps[k + 1])
    ELSE IF ps[k].tag = Tag_Appl_Prot_Id /\ ps[k].data \in {301, 302}
    THEN IF k + 2 > Len(ps) THEN [ok |-> FALSE, trk_hdr |-> hdr, trk_data |-> dat]
         ELSE ScanProtocols(ps, k + 3, ps[k + 1], ps[k + 2])
    ELSE ScanProtocols(ps, k + 1, hdr, dat)

\* (mutant) a resolver that takes what the scan picked without validating it
resolve_unvalidated(s, product_id) ==
    [ok |-> s.ok /\ (s.trk_data.tag = 0 => product_id \in supported_product_ids),
     trk_hdr |-> s.trk_hdr,
     trk_data |-> IF s.trk_data.tag = 0 /\ product_id \in supported_product_ids
                  THEN [tag |-> Tag_Data_Prot_Id, data |-> 300]
                  ELSE s.trk_data]

\* (mutant) a resolver without the fallback for the listed product ids
resolve_no_fallback(s, product_id) ==
    [ok |-> /\ s.ok
            /\ s.trk_data.tag = Tag_Data_Prot_Id
            /\ s.trk_data.data \in {300, 301, 302, 303, 304}
            /\ (s.trk_hdr.tag # 0 =>
                   /\ s.trk_hdr.tag = Tag_Data_Prot_Id
                   /\ s.trk_hdr.data \in {310, 311, 312}),
     trk_hdr |-> s.trk_hdr,
     trk_data |-> s.trk_data]

\* lines 521-557 on the result s of the scan: the legacy fallback and the
\* validation of what was picked
resolve_after_scan(s, product_id) ==
    [ok |-> /\ s.ok
            /\ IF s.trk_data.tag = 0
               THEN product_id \in supported_product_ids
               ELSE /\ s.trk_data.tag = Tag_Data_Prot_Id
                    /\ s.trk_data.data \in {300, 301, 302, 303, 304}
            /\ (s.trk_hdr.tag # 0 =>
                   /\ s.trk_hdr.tag = Tag_Data_Prot_Id
                   /\ s.trk_hdr.data \in {310, 311, 312}),
     trk_hdr |-> s.trk_hdr,
     trk_data |-> IF s.trk_data.tag = 0 /\ product_id \in supported_product_ids
                  THEN [tag |-> Tag_Data_Prot_Id, data |-> 300]
                  ELSE s.trk_data]

\* garmin_transfer_trk up to the call of garmin_each: ok is FALSE when it
\* ends in "unsupported track transfer protocol"
resolve_trk(ps, product_id) ==
    resolve_after_scan(ScanProtocols(ps, 1, NoProtocol, NoProtocol), product_id)

\* garmin->product_data->product_id of the copied Pid_Product_Data payload
product_id_of(pd) == LoadU16(pd)

(* ---------------------------------------------------------------- device *)

Entry(tag, n) == <<tag>> \o U16LE(n)

\* product_id 50, software_version 250, "GPS 12 XL"
ProductData ==
    Packet(Pid_Product_Data,
           U16LE(50) \o U16LE(250) \o <<71, 80, 83, 32, 49, 50, 32, 88, 76, 0>>)
ExtProductData == Packet(Pid_Ext_Product_Data, <<0>>)

P000 == Entry(Tag_Phys_Prot_Id, 0)
L001 == Entry(Tag_Link_Prot_Id, 1)
A010 == Entry(Tag_Appl_Prot_Id, 10)
A300 == Entry(Tag_Appl_Prot_Id, 300)
D300 == Entry(Tag_Data_Prot_Id, 300)

ArrayFull   == Packet(Pid_Protocol_Array, P000 \o L001 \o A010 \o A300 \o D300)
ArrayNoA010 == Packet(Pid_Protocol_Array, P000 \o L001 \o A300 \o D300)
ArrayNoL001 == Packet(Pid_Protocol_Array, P000 \o A010 \o A300 \o D300)
ArrayLegacy == Packet(Pid_Protocol_Array, P000 \o L001 \o A010)
ArrayCut    == Packet(Pid_Protocol_Array, P000 \o L001 \o A010 \o A300)

Records(n) == Packet(Pid_Records, U16LE(n))
\* a D300 track point: posn (2^30, -2^30), time 100, new_trk 0
TrkData  == Packet(Pid_Trk_Data, <<0, 0, 0, 64, 0, 0, 0, 192, 100, 0, 0, 0, 0>>)
TrkHdr   == Packet(Pid_Trk_Hdr, <<1, 255, 65, 0>>)
XferCmplt == Packet(Pid_Xfer_Cmplt, U16LE(Cmnd_Transfer_Trk))
Nak(id)  == Packet(Pid_Nak_Byte, U16LE(id))

\* what the device may answer to a host packet with this id
AckReplies(id) ==
    { Packet(Pid_Ack_Byte, <<id>>), Packet(Pid_Ack_Byte, U16LE(id)),
      Packet(Pid_Ack_Byte, <<>>), Packet(Pid_Ack_Byte, <<0>>),
      Packet(Pid_Ack_Byte, <<id, 1>>), Packet(Pid_Ack_Byte, <<0, 0, 0>>),
      Packet(Pid_Ack_Byte, <<id, 0, 0>>), Nak(id), ProductData }

ProductPackets ==
    { ProductData, ExtProductData, ArrayFull, ArrayNoA010, ArrayNoL001,
      ArrayLegacy, ArrayCut, Nak(Pid_Ack_Byte) }

TransferPackets ==
    { Records(n) : n \in 0..MaxRecords }
    \cup { TrkData, TrkHdr, XferCmplt,
           Packet(Pid_Ack_Byte, U16LE(Pid_Command_Data)) }

None == EOF

\* the device takes a host frame off the line: a command makes it owe an
\* ack and selects what it sends next, Cmnd_Turn_Off_Pwr switches it off
DeviceTakes(d, p) ==
    IF p.id = Pid_Product_Rqst THEN [mode |-> "product", owes |-> p.id]
    ELSE IF p.id = Pid_Command_Data /\ p.size = 2
    THEN IF LoadU16(p.data) = Cmnd_Turn_Off_Pwr
         THEN [mode |-> "off", owes |-> None]
         ELSE [mode |-> "transfer", owes |-> p.id]
    ELSE d

DeviceReceive(d, frame) == DeviceTakes(d, garmin_read_packet(frame, NoPacket).pkt)

DeviceOffers(d) ==
    IF d.owes # None THEN AckReplies(d.owes)
    ELSE IF d.mode = "product" THEN ProductPackets
    ELSE IF d.mode = "transfer" THEN TransferPackets
    ELSE {}

(* ----------------------------------------------------------------- state *)

VARIABLES
    pc,            \* where the host program is
    command,       \* argv: "id", "igc" or "download"
    power_off,     \* option -o
    unit,          \* the source file the link functions are built from
    rx,            \* bytes on the line from the device, not yet read
    tx,            \* the frame of the host's last write(2)
    nwrites,       \* packets the host has written
    log,           \* the packet log, most recent LogWindow lines
    dev,           \* the device: [mode, owes]
    packet,        \* the local packet of garmin_new / garmin_each
    product_data,  \* garmin->product_data, bytes
    protocols,     \* garmin->protocols[0 .. nprotocols)
    trk_hdr,       \* transfer_trk_data.trk_hdr once resolved
    trk_data,      \* transfer_trk_data.trk_data once resolved
    announced,     \* payload of the Pid_Records packet garmin_each accepted
    records,       \* garmin_each: records
    i,             \* garmin_each: i
    calls,         \* the (i, records) of every callback invocation
    warnings,      \* calls of warning()
    timeouts,      \* read waits that timed out
    junk,          \* device packets sent while another id was expected
    unacked,       \* ids of host packets (other than acks) that no
                   \* Pid_Ack_Byte packet has answered yet
    err,           \* message of the fatal error that ended the process, or ""
    f_pkt,         \* framing: the packet handed to garmin_write_packet
    f_tail,        \* framing: bytes on the line behind the frame
    f_res,         \* framing: what garmin_read_packet made of the line
    f_line,        \* framing: the line as the device wrote it, and its defect
    track,         \* the track points handed to garmini_write_igc
    options,       \* the option strings set on the command line
    file,          \* the records garmini_write_igc has written
    files,         \* the names of the files garmini_download has written
    turn           \* the parity of the number of read waits that timed out

vars == <<pc, command, power_off, unit, rx, tx, nwrites, log, dev, packet,
          product_data, protocols, trk_hdr, trk_data, announced, records, i,
          calls, warnings, timeouts, junk, unacked, err, f_pkt, f_tail, f_res, f_line,
          track, options, file, files, turn>>

io      == <<rx, tx, nwrites, log, dev, timeouts, unacked>>
session == <<product_data, protocols, trk_hdr, trk_data, announced, records, i,
            calls>>
args    == <<command, power_off, unit>>
framing == <<f_pkt, f_tail, f_res, f_line>>
igc     == <<track, options, file, files>>

Commands == {"id", "igc", "download"}

NoLine == [kind |-> "none", arg |-> 0, fields |-> <<>>, bytes |-> <<>>]

\* src/garmin.c and src/garmini.c each define the link functions; the two
\* copies differ in garmin_expect_packet_ack alone
Units == {"garmin.c", "garmini.c"}

Start(first) ==
    /\ pc = first
    /\ rx = <<>> /\ tx = <<>> /\ nwrites = 0 /\ log = <<>>
    /\ dev = [mode |-> "idle", owes |-> None]
    /\ packet = NoPacket
    /\ product_data = <<>> /\ protocols = <<>>
    /\ trk_hdr = NoProtocol /\ trk_data = NoProtocol
    /\ announced = <<>> /\ records = 0 /\ i = 0 /\ calls = <<>>
    /\ warnings = 0 /\ timeouts = 0 /\ junk = 0 /\ unacked = <<>>
    /\ err = ""
    /\ f_res = [st |-> "none", rest |-> <<>>, pkt |-> NoPacket]
    /\ f_line = NoLine
    /\ track = <<>> /\ options = {} /\ file = <<>> /\ files = {} /\ turn = FALSE

\* main has parsed its arguments and calls garmin_new
\* (garmini_download transfers the track log with the same call as
\* garmini_igc; what it does with the track is in SpecIgc)
Init ==
    /\ Start("new_rqst")
    /\ command \in Commands \ {"download"}
    /\ power_off \in BOOLEAN
    /\ unit \in Units
    /\ f_pkt = NoPacket /\ f_tail = <<>>

(* ------------------------------------------------------------ host I/O *)

\* a read wait: with nothing on the line it times out (GARMINI_TIMEOUT).
\* The timeouts are counted up to MaxTimeouts, and turn keeps the parity of
\* their true number.
Wait ==
    IF rx = <<>>
    THEN /\ timeouts' = IF timeouts < MaxTimeouts THEN timeouts + 1 ELSE timeouts
         /\ turn' = ~turn
    ELSE UNCHANGED <<timeouts, turn>>

\* a Pid_Ack_Byte packet answers the oldest host packet still open
Answered(u, st, p) ==
    IF st = "ok" /\ p.id = Pid_Ack_Byte /\ u # <<>> THEN Tail(u) ELSE u

\* garmin_write_packet of a packet that is not an ack
WritePacket(p) ==
    /\ tx' = garmin_write_packet(p)
    /\ nwrites' = nwrites + 1
    /\ log' = garmin_log_packet(log, ">", p)
    /\ dev' = DeviceReceive(dev, garmin_write_packet(p))
    /\ unacked' = Append(unacked, p.id)
    /\ UNCHANGED <<rx, timeouts, turn>>

\* the effects of garmin_write_packet_ack_reply on the line and the log
ReadReply(r) ==
    /\ Wait
    /\ rx' = r.rest
    /\ log' = r.log
    /\ unacked' = Answered(unacked, r.st, r.ack)
    /\ UNCHANGED <<tx, nwrites, dev>>

\* the effects of garmin_read_packet_ack on the line and the log
ReadPacketAck(r) ==
    /\ Wait
    /\ rx' = r.rest
    /\ log' = r.log
    /\ unacked' = Answered(unacked, r.st, r.pkt)
    /\ IF r.wrote # <<>>
       THEN /\ tx' = r.wrote[1]
            /\ nwrites' = nwrites + Len(r.wrote)
            /\ dev' = DeviceReceive(dev, r.wrote[1])
       ELSE UNCHANGED <<tx, nwrites, dev>>

Fatal(r) == r.st \notin {"ok", "eof"}

\* garmin_expect_packet_ack when garmin_read_packet_ack returned another id
\* than the awaited one (EOF included): src/garmin.c warns and reads again,
\* src/garmini.c ends the process
ExpectMiss ==
    IF unit = "garmin.c"
    THEN /\ warnings' = IF warnings < MaxWarnings THEN warnings + 1 ELSE warnings
         /\ UNCHANGED err
    ELSE err' = "unexpected packet" /\ UNCHANGED warnings

(* ------------------------------------------------------------ garmin_new *)

\* lines 330-333: Product_Rqst is written
garmin_new_rqst ==
    /\ pc = "new_rqst" /\ err = ""
    /\ packet' = [id |-> Pid_Product_Rqst, size |-> 0, data |-> <<>>]
    /\ WritePacket(packet')
    /\ pc' = "new_ack"
    /\ UNCHANGED <<session, args, igc, framing, warnings, junk, err>>

\* garmin_write_packet_ack returns to next, or the process ends
AfterReply(r, next) ==
    /\ ReadReply(r)
    /\ err' = r.err
    /\ pc' = IF r.err = "" THEN next ELSE pc

\* line 333: garmin_write_packet_ack reads the reply
garmin_new_ack ==
    /\ pc = "new_ack" /\ err = ""
    /\ AfterReply(garmin_write_packet_ack_reply(rx, packet, log), "new_product")
    /\ UNCHANGED <<session, args, igc, framing, packet, warnings, junk>>

\* lines 334-337 with r what garmin_read_packet_ack returned
NewProduct(r) ==
    /\ ReadPacketAck(r)
    /\ packet' = r.pkt
    /\ IF Fatal(r)
       THEN err' = r.st /\ UNCHANGED <<pc, warnings, product_data>>
       ELSE IF ReturnOf(r) # Pid_Product_Data
       THEN ExpectMiss /\ UNCHANGED <<pc, product_data>>
       ELSE /\ product_data' = Payload(r.pkt) \o <<0>>
            /\ pc' = "new_ext"
            /\ UNCHANGED <<warnings, err>>

\* lines 334-337: one turn of garmin_expect_packet_ack(Pid_Product_Data)
garmin_new_product ==
    /\ pc = "new_product" /\ err = ""
    /\ NewProduct(garmin_read_packet_ack(rx, packet, log))
    /\ UNCHANGED <<protocols, trk_hdr, trk_data, announced, records, i, calls, args, igc,
                   framing, junk>>

\* lines 352-356: the protocol checks that end garmin_new
Verify(ps) ==
    /\ err' = verify_protocols(ps)
    /\ pc' = IF verify_protocols(ps) = "" THEN "main" ELSE pc

\* lines 344-351 on the packet last read (and not yet past line 348)
Line344(p) ==
    IF p.id = Pid_Protocol_Array
    THEN /\ protocols' = Protocols(Payload(p))
         /\ pc' = "new_last"
         /\ UNCHANGED err
    ELSE IF p.id # EOF
    THEN err' = "unexpected packet" /\ UNCHANGED <<pc, protocols>>
    ELSE Verify(protocols) /\ UNCHANGED protocols

\* lines 338-343 with r what garmin_read_packet_ack returned
NewExt(r) ==
    /\ ReadPacketAck(r)
    /\ packet' = r.pkt
    /\ IF Fatal(r)
       THEN err' = r.st /\ UNCHANGED <<pc, protocols>>
       ELSE IF r.pkt.id = Pid_Ext_Product_Data
       THEN pc' = "new_array" /\ UNCHANGED <<err, protocols>>
       ELSE IF r.pkt.id # EOF
       THEN err' = "unexpected packet" /\ UNCHANGED <<pc, protocols>>
       ELSE Line344(r.pkt)

\* lines 338-343: the packet after Product_Data
garmin_new_ext ==
    /\ pc = "new_ext" /\ err = ""
    /\ NewExt(garmin_read_packet_ack(rx, packet, log))
    /\ UNCHANGED <<product_data, trk_hdr, trk_data, announced, records, i, calls, args, igc,
                   framing, warnings, junk>>

\* line 340 with r what garmin_read_packet_ack returned, then lines 344-351
NewArray(r) ==
    /\ ReadPacketAck(r)
    /\ packet' = r.pkt
    /\ IF Fatal(r)
       THEN err' = r.st /\ UNCHANGED <<pc, protocols>>
       ELSE Line344(r.pkt)

\* line 340, then lines 344-351: the packet after Ext_Product_Data
garmin_new_array ==
    /\ pc = "new_array" /\ err = ""
    /\ NewArray(garmin_read_packet_ack(rx, packet, log))
    /\ UNCHANGED <<product_data, trk_hdr, trk_data, announced, records, i, calls, args, igc,
                   framing, warnings, junk>>

\* line 348 with r what garmin_read_packet_ack returned, then lines 352-356
NewLast(r) ==
    /\ ReadPacketAck(r)
    /\ packet' = r.pkt
    /\ IF Fatal(r)
       THEN err' = r.st /\ UNCHANGED pc
       ELSE Verify(protocols)

\* line 348, then lines 352-356: one more packet is read and acknowledged,
\* whatever it is, and the protocols are checked
garmin_new_last ==
    /\ pc = "new_last" /\ err = ""
    /\ NewLast(garmin_read_packet_ack(rx, packet, log))
    /\ UNCHANGED <<session, args, igc, framing, warnings, junk>>

(* ------------------------------------------- main, garmin_transfer_trk *)

\* (mutant) the command is written first and the protocols are looked at
\* when the device has it
command_before_check(t) ==
    /\ packet' = [id |-> Pid_Command_Data, size |-> 2,
                  data |-> U16LE(Cmnd_Transfer_Trk)]
    /\ WritePacket(packet')
    /\ IF ~t.ok
       THEN /\ err' = "unsupported track transfer protocol"
            /\ UNCHANGED <<trk_hdr, trk_data, pc>>
       ELSE /\ trk_hdr' = t.trk_hdr
            /\ trk_data' = t.trk_data
            /\ pc' = "each_ack"
            /\ UNCHANGED err

\* garmin_transfer_trk with t what the resolver found: the fatal error, or
\* garmin_each lines 387-391, where the command is written
TransferTrk(t) ==
    IF ~t.ok
    THEN /\ err' = "unsupported track transfer protocol"
         /\ UNCHANGED <<io, turn, packet, trk_hdr, trk_data, pc>>
    ELSE /\ trk_hdr' = t.trk_hdr
         /\ trk_data' = t.trk_data
         /\ packet' = [id |-> Pid_Command_Data, size |-> 2,
                       data |-> U16LE(Cmnd_Transfer_Trk)]
         /\ WritePacket(packet')
         /\ pc' = "each_ack"
         /\ UNCHANGED err

\* main lines 1084-1096: garmini_id talks to nobody; garmini_igc and
\* garmini_download call garmin_transfer_trk
main_command ==
    /\ pc = "main" /\ err = ""
    /\ IF command = "id"
       THEN /\ pc' = "exit"
            /\ UNCHANGED <<io, turn, packet, trk_hdr, trk_data, err>>
       ELSE TransferTrk(resolve_trk(protocols, product_id_of(product_data)))
    /\ UNCHANGED <<product_data, protocols, announced, records, i, calls,
                   args, igc, framing, warnings, junk>>

(* ------------------------------------------ garmin_transfer_trk_callback *)

\* four bytes, least significant first, of a number of 32 bits
LE32(v) ==
    <<v % 256, (v \div 256) % 256, (v \div 65536) % 256, (v \div 16777216) % 256>>

\* the int32_t at an offset of packet->data
LoadI32(data, off) ==
    data[off + 1] + 256 * data[off + 2] + 65536 * data[off + 3]
    + 16777216 * (IF data[off + 4] >= 128 THEN data[off + 4] - 256 ELSE data[off + 4])

\* the uint32_t, or the encoding of the float, at an offset of packet->data
\* (its top bit is not set)
LoadU32(data, off) ==
    data[off + 1] + 256 * data[off + 2] + 65536 * data[off + 3]
    + 16777216 * data[off + 4]

\* the bytes of a D300..D304 record behind posn and time, for an altitude
\* alt: alt and the fields behind it, which the host does not look at
trk_record_tail(format, alt) ==
    IF format = 300 THEN <<0>>
    ELSE IF format = 301 THEN LE32(alt) \o LE32(0) \o <<0>>
    ELSE IF format = 302 THEN LE32(alt) \o LE32(0) \o LE32(Float_1e25) \o <<0>>
    ELSE IF format = 303 THEN LE32(alt) \o <<72>>
    ELSE LE32(alt) \o LE32(0) \o <<72, 90, 1>>

\* the payload a device sends for the record r in the format D<format>
trk_record(format, r) ==
    LE32(r.lat) \o LE32(r.lon) \o LE32(r.time) \o trk_record_tail(format, r.alt)

\* (mutant) every record is decoded as a D300 record
decode_as_d300(format, data) ==
    [time |-> LoadU32(data, 8), lat |-> LoadI32(data, 0),
     lon |-> LoadI32(data, 4), alt |-> 0, validity |-> "V"]

\* lines 425-474: the garmin_trk_point_t made of packet->data under the
\* resolved format (alt is kept as the encoding of the float)
decode_trk_point(format, data) ==
    [time |-> LoadU32(data, 8), lat |-> LoadI32(data, 0),
     lon |-> LoadI32(data, 4),
     alt |-> IF format = 300 THEN 0 ELSE LoadU32(data, 12),
     validity |-> IF format = 300 THEN "V" ELSE "A"]

\* (mutant) a push that never moves the end of the track on: each point
\* takes the place of the one before it
trk_callback_in_place(trk, format, p) ==
    IF p.id = Pid_Trk_Data
    THEN <<decode_trk_point(format, p.data)>>
    ELSE trk

\* garmin_transfer_trk_callback on the packet p with garmini_track_push
\* behind it: the track with the point of a Pid_Trk_Data packet pushed
trk_callback(trk, format, p) ==
    IF p.id = Pid_Trk_Data THEN Append(trk, decode_trk_point(format, p.data))
    ELSE trk

(* ----------------------------------------------------------- garmin_each *)

\* line 391: garmin_write_packet_ack reads the reply
garmin_each_ack ==
    /\ pc = "each_ack" /\ err = ""
    /\ AfterReply(garmin_write_packet_ack_reply(rx, packet, log), "each_records")
    /\ UNCHANGED <<session, args, igc, framing, packet, warnings, junk>>

\* (mutant) a record loop that runs once more than announced
one_more_record(k, n) == k <= n

\* the loop condition i < records of line 395
more_records(k, n) == k < n

\* lines 392-394 with r what garmin_read_packet_ack returned
EachRecords(r) ==
    /\ ReadPacketAck(r)
    /\ packet' = r.pkt
    /\ IF Fatal(r)
       THEN err' = r.st /\ UNCHANGED <<pc, warnings, announced, records, i>>
       ELSE IF ReturnOf(r) # Pid_Records
       THEN ExpectMiss /\ UNCHANGED <<pc, announced, records, i>>
       ELSE /\ announced' = Payload(r.pkt)
            /\ records' = LoadU16(r.pkt.data)
            /\ i' = 0
            /\ pc' = IF more_records(0, LoadU16(r.pkt.data))
                     THEN "each_loop" ELSE "each_cmplt"
            /\ UNCHANGED <<warnings, err>>

\* lines 392-394: one turn of garmin_expect_packet_ack(Pid_Records)
garmin_each_records ==
    /\ pc = "each_records" /\ err = ""
    /\ EachRecords(garmin_read_packet_ack(rx, packet, log))
    /\ UNCHANGED <<product_data, protocols, trk_hdr, trk_data, calls, args, igc, framing,
                   junk>>

\* lines 396-397 with r what garmin_read_packet_ack returned; its return
\* value is not looked at
EachLoop(r) ==
    /\ ReadPacketAck(r)
    /\ packet' = r.pkt
    /\ IF Fatal(r)
       THEN err' = r.st /\ UNCHANGED <<pc, calls, i, track>>
       ELSE /\ calls' = Append(calls, <<i, records>>)
            /\ track' = trk_callback(track, trk_data.data, r.pkt)
            /\ i' = i + 1
            /\ pc' = IF more_records(i + 1, records)
                     THEN "each_loop" ELSE "each_cmplt"
            /\ UNCHANGED err

\* lines 395-398: one turn of the record loop
garmin_each_loop ==
    /\ pc = "each_loop" /\ err = ""
    /\ EachLoop(garmin_read_packet_ack(rx, packet, log))
    /\ UNCHANGED <<product_data, protocols, trk_hdr, trk_data, announced,
                   records, args, options, file, files, framing, warnings,
                   junk>>

\* line 399 with r what garmin_read_packet_ack returned
EachCmplt(r) ==
    /\ ReadPacketAck(r)
    /\ packet' = r.pkt
    /\ IF Fatal(r)
       THEN err' = r.st /\ UNCHANGED <<pc, warnings>>
       ELSE IF ReturnOf(r) # Pid_Xfer_Cmplt
       THEN ExpectMiss /\ UNCHANGED pc
       ELSE pc' = "exit" /\ UNCHANGED <<warnings, err>>

\* line 399: one turn of garmin_expect_packet_ack(Pid_Xfer_Cmplt)
garmin_each_cmplt ==
    /\ pc = "each_cmplt" /\ err = ""
    /\ EachCmplt(garmin_read_packet_ack(rx, packet, log))
    /\ UNCHANGED <<session, args, igc, framing, junk>>

(* ------------------------------------------------- garmin_turn_off_pwr *)

\* (mutant) the command packet carries Cmnd_Abort_Transfer
abort_transfer_packet ==
    [id |-> Pid_Command_Data, size |-> 2, data |-> U16LE(0)]

\* the packet garmin_turn_off_pwr builds
turn_off_pwr_packet ==
    [id |-> Pid_Command_Data, size |-> 2, data |-> U16LE(Cmnd_Turn_Off_Pwr)]

\* main lines 1098-1105: the optional power-off command, written with
\* garmin_write_packet alone, then garmin_delete
main_exit ==
    /\ pc = "exit" /\ err = ""
    /\ IF power_off
       THEN /\ packet' = turn_off_pwr_packet
            /\ WritePacket(packet')
       ELSE UNCHANGED <<io, turn, packet>>
    /\ pc' = "done"
    /\ UNCHANGED <<session, args, igc, framing, warnings, junk, err>>

(* ---------------------------------------------------------------- device *)

Expected ==
    IF pc = "new_product" THEN Pid_Product_Data
    ELSE IF pc = "each_records" THEN Pid_Records
    ELSE IF pc = "each_cmplt" THEN Pid_Xfer_Cmplt
    ELSE None

\* the device puts one frame on the line, once the host has read the last
DeviceSend ==
    /\ err = "" /\ pc \notin {"done", "frame_write", "frame_read", "frame_done"}
    /\ rx = <<>>
    /\ \E p \in DeviceOffers(dev) :
        /\ IF Expected # None /\ p.id # Expected
           THEN junk < MaxJunk /\ junk' = junk + 1
           ELSE UNCHANGED junk
        /\ rx' = garmin_write_packet(p)
    /\ dev' = [dev EXCEPT !.owes = None]
    /\ UNCHANGED <<pc, tx, nwrites, log, timeouts, unacked, packet, session,
                   args, turn, igc, framing, warnings, err>>

Next ==
    \/ garmin_new_rqst \/ garmin_new_ack \/ garmin_new_product
    \/ garmin_new_ext \/ garmin_new_array \/ garmin_new_last
    \/ main_command
    \/ garmin_each_ack \/ garmin_each_records \/ garmin_each_loop
    \/ garmin_each_cmplt
    \/ main_exit
    \/ DeviceSend

Spec == Init /\ [][Next]_vars

\* the process runs: main has not returned and no fatal error has ended it
Running == pc # "done" /\ err = ""

\* a read wait of the running process comes to its end: no read wait is
\* longer than GARMINI_TIMEOUT, so a process that runs for ever goes through
\* read waits that time out again and again.  The device may fall silent at
\* any time.
HostStep == Running /\ turn' = ~turn

SpecLive == Init /\ [][Next]_vars /\ WF_turn(HostStep)

(* --------------------------------------------------------------- framing *)

FrameBytes == {0, ETX, DLE, 240, 255}

RECURSIVE SeqsUpTo(_, _)
SeqsUpTo(S, n) ==
    IF n = 0 THEN {<<>>}
    ELSE LET shorter == SeqsUpTo(S, n - 1) IN
         shorter \cup { Append(q, b) : q \in { t \in shorter : Len(t) = n - 1 }, b \in S }

Fill(b, n) == [k \in 1..n |-> b]

\* every payload of up to MaxLen bytes, and payloads of 16 and 17 bytes (the
\* size byte itself is DLE, or follows it)
FramePayloads ==
    SeqsUpTo(FrameBytes, MaxLen)
    \cup { Fill(b, n) : b \in {DLE, 1}, n \in {DLE, DLE + 1} }

FramePackets == { Packet(id, d) : id \in FrameBytes \cup {Pid_Ack_Byte}, d \in FramePayloads }

FrameInit ==
    /\ Start("frame_write")
    /\ command = "id" /\ power_off = FALSE /\ unit = "garmin.c"
    /\ f_pkt \in FramePackets
    /\ f_tail \in {<<>>, <<DLE>>, <<ETX, 7>>}

\* garmin_write_packet(f_pkt) puts its frame on a line looped back to the reader
FrameWrite ==
    /\ pc = "frame_write"
    /\ rx' = garmin_write_packet(f_pkt) \o f_tail
    /\ pc' = "frame_read"
    /\ UNCHANGED <<tx, nwrites, log, dev, timeouts, unacked, packet, session,
                   args, turn, igc, framing, warnings, junk, err>>

\* garmin_read_packet reads the line into a packet that held old bytes
FrameRead ==
    /\ pc = "frame_read"
    /\ \E old \in {NoPacket, Packet(1, <<7, 7, 7>>)} :
         f_res' = garmin_read_packet(rx, old)
    /\ rx' = f_res'.rest
    /\ pc' = "frame_done"
    /\ UNCHANGED <<tx, nwrites, log, dev, timeouts, unacked, packet, session,
                   args, turn, igc, f_pkt, f_tail, f_line, warnings, junk, err>>

FrameNext == FrameWrite \/ FrameRead

SpecFrame == FrameInit /\ [][FrameNext]_vars

(* ------------------------------------------------------ a defective line *)

\* id, size, payload and checksum of a frame, before stuffing
Fields(p) ==
    <<p.id % 256, p.size % 256>> \o Payload(p)
        \o <<Checksum(p.id % 256, p.size % 256, Payload(p))>>

\* the device's stuffing of one field
Doubled(v) == IF v = DLE THEN <<DLE, DLE>> ELSE <<v>>

\* the fields on the wire; field number lone (0: none) is left as one byte
RECURSIVE WireFields(_, _)
WireFields(fs, lone) ==
    IF fs = <<>> THEN <<>>
    ELSE (IF lone = 1 THEN <<Head(fs)>> ELSE Doubled(Head(fs)))
         \o WireFields(Tail(fs), lone - 1)

Wire(first, fs, lone, dle, etx) == <<first>> \o WireFields(fs, lone) \o <<dle, etx>>

\* a checksum field that is off by d
OffChecksum(fs, d) == [fs EXCEPT ![Len(fs)] = (fs[Len(fs)] + d) % 256]

\* what a device may put on the line for packet p: the frame, or the frame
\* with one defect
Lines(p) ==
    { [kind |-> "none", arg |-> 0, fields |-> Fields(p),
       bytes |-> Wire(DLE, Fields(p), 0, DLE, ETX)] }
    \cup { [kind |-> "first", arg |-> b, fields |-> Fields(p),
            bytes |-> Wire(b, Fields(p), 0, DLE, ETX)] : b \in {0, ETX, 255} }
    \cup { [kind |-> "checksum", arg |-> d, fields |-> OffChecksum(Fields(p), d),
            bytes |-> Wire(DLE, OffChecksum(Fields(p), d), 0, DLE, ETX)] : d \in {1, 255} }
    \cup { [kind |-> "dle", arg |-> b, fields |-> Fields(p),
            bytes |-> Wire(DLE, Fields(p), 0, b, ETX)] : b \in {0, ETX, 255} }
    \cup { [kind |-> "etx", arg |-> b, fields |-> Fields(p),
            bytes |-> Wire(DLE, Fields(p), 0, DLE, b)] : b \in {0, DLE, 255} }
    \cup { [kind |-> "lone", arg |-> j, fields |-> Fields(p),
            bytes |-> Wire(DLE, Fields(p), j, DLE, ETX)] :
              j \in { n \in 1..Len(Fields(p)) : Fields(p)[n] = DLE } }
    \cup { [kind |-> "cut", arg |-> k, fields |-> Fields(p),
            bytes |-> Take(Wire(DLE, Fields(p), 0, DLE, ETX), k)] :
              k \in 0..(Len(Wire(DLE, Fields(p), 0, DLE, ETX)) - 1) }

LineInit ==
    /\ Start("line_write")
    /\ command = "id" /\ power_off = FALSE /\ unit = "garmin.c"
    /\ f_pkt \in FramePackets
    /\ f_tail = <<>>

\* the device puts a line for f_pkt on the wire
LineWrite ==
    /\ pc = "line_write"
    /\ f_line' \in Lines(f_pkt)
    /\ rx' = f_line'.bytes
    /\ pc' = "line_read"
    /\ UNCHANGED <<tx, nwrites, log, dev, timeouts, unacked, packet, session,
                   args, turn, igc, f_pkt, f_tail, f_res, warnings, junk, err>>

\* garmin_read_packet_ack has returned r, or ended the process
LineReadAs(r) ==
    /\ ReadPacketAck(r)
    /\ f_res' = r
    /\ packet' = r.pkt
    /\ err' = IF Fatal(r) THEN r.st ELSE ""

\* the host calls garmin_read_packet_ack on the line
LineRead ==
    /\ pc = "line_read"
    /\ \E old \in {NoPacket, Packet(1, <<7, 7, 7>>)} :
         LineReadAs(garmin_read_packet_ack(rx, old, log))
    /\ pc' = "line_done"
    /\ UNCHANGED <<session, args, igc, f_pkt, f_tail, f_line, warnings, junk>>

LineNext == LineWrite \/ LineRead

SpecLine == LineInit /\ [][LineNext]_vars

(* ------------------------------------------------- the resolver's inputs *)

Proto(tag, data) == [tag |-> tag, data |-> data]

\* entries a device may list behind its link and command protocols: the four
\* tags of the enum, and one entry whose tag byte is 0
ResolveEntries ==
    { Proto(Tag_Appl_Prot_Id, 300), Proto(Tag_Appl_Prot_Id, 301),
      Proto(Tag_Appl_Prot_Id, 302), Proto(Tag_Appl_Prot_Id, 100),
      Proto(Tag_Data_Prot_Id, 300), Proto(Tag_Data_Prot_Id, 301),
      Proto(Tag_Data_Prot_Id, 304), Proto(Tag_Data_Prot_Id, 305),
      Proto(Tag_Data_Prot_Id, 310), Proto(Tag_Data_Prot_Id, 312),
      Proto(Tag_Data_Prot_Id, 313), Proto(Tag_Link_Prot_Id, 2),
      Proto(0, 310) }

\* the Pid_Product_Data payload of a device with this product id
ProductDataOf(id) == U16LE(id) \o U16LE(250) \o <<71, 80, 83, 0, 0>>

\* garmin_new has returned a session: the array names L001 and A010, the
\* product id is one of the listed ones (50) or not (51)
ResolveInit ==
    /\ pc = "main"
    /\ rx = <<>> /\ tx = <<>> /\ nwrites = 0 /\ log = <<>>
    /\ dev = [mode |-> "product", owes |-> None]
    /\ packet = NoPacket
    /\ product_data \in {ProductDataOf(50), ProductDataOf(51)}
    /\ protocols \in { Protocols(P000 \o L001 \o A010) \o t :
                         t \in SeqsUpTo(ResolveEntries, MaxProtocols) }
    /\ trk_hdr = NoProtocol /\ trk_data = NoProtocol
    /\ announced = <<>> /\ records = 0 /\ i = 0 /\ calls = <<>>
    /\ warnings = 0 /\ timeouts = 0 /\ junk = 0 /\ unacked = <<>>
    /\ err = ""
    /\ f_res = [st |-> "none", rest |-> <<>>, pkt |-> NoPacket]
    /\ f_line = NoLine /\ f_pkt = NoPacket /\ f_tail = <<>>
    /\ track = <<>> /\ options = {} /\ file = <<>> /\ files = {} /\ turn = FALSE
    /\ command = "igc" /\ power_off = FALSE /\ unit \in Units

\* main calls garmin_transfer_trk on the session
SpecResolve == ResolveInit /\ [][main_command]_vars

(* ------------------------------------------------------ the IGC writer *)

\* one fprintf of garmini_write_igc: the record's name, the numbers it prints
\* (day, month, year of an HFDTE; the index of the point of a B) and the
\* bytes that end it
Rec(name, arg, eol) == [name |-> name, arg |-> arg, eol |-> eol]

\* gmtime(3) with TZ=UTC: the calendar fields of t seconds after 1970-01-01
\* (the days-to-civil computation of the proleptic Gregorian calendar)
gmtime(t) ==
    LET days == t \div 86400
        secs == t % 86400
        z    == days + 719468
        era  == z \div 146097
        doe  == z - era * 146097
        yoe  == (doe - doe \div 1460 + doe \div 36524 - doe \div 146096) \div 365
        doy  == doe - (365 * yoe + yoe \div 4 - yoe \div 100)
        mp   == (5 * doy + 2) \div 153
        m    == IF mp < 10 THEN mp + 3 ELSE mp - 9
        y    == yoe + era * 400 + (IF m <= 2 THEN 1 ELSE 0)
    IN  [tm_sec |-> secs % 60, tm_min |-> (secs \div 60) % 60,
         tm_hour |-> secs \div 3600,
         tm_mday |-> doy - (153 * mp + 2) \div 5 + 1,
         tm_mon |-> m - 1, tm_year |-> y - 1900]

\* the seconds between 1970-01-01 and the epoch of the device's times
GarminEpoch == 631065600

\* the position a device sends for a point without a fix
NoPosn == 2147483647

\* a float, widened to double without loss: its exponent, and the 53-bit
\* significand as its upper 24 and lower 29 bits (bits is the encoding of a
\* float that is not negative)
float_to_double(bits) ==
    LET e == (bits \div 8388608) % 256
        m == bits % 8388608
    IN  IF e = 0 THEN [exp |-> 0 - 126, hi |-> m, lo |-> 0]
        ELSE [exp |-> e - 127, hi |-> m + 8388608, lo |-> 0]

\* the double constant 1.0e25 of line 863: 0x45208B2A2C280291
Double_1e25 == [exp |-> 83, hi |-> 8673617, lo |-> 203948689]

\* the points of a track: the time after the device's epoch, the position in
\* semicircles and the altitude as the encoding of the float (1150963712 is
\* 1234.5)
IgcTimes == {0, 86399, 86400}
TrkPoints ==
    [time : IgcTimes, lat : {NoPosn, 1073741824}, lon : {NoPosn},
     alt : {1150963712}, validity : {"A"}]
    \cup [time : IgcTimes, lat : {1073741824}, lon : {1073741824},
          alt : {1150963712, Float_1e25}, validity : {"A"}]

\* pilot, glider_type, glider_id, competition_id, competition_class
OptionNames == {"pilot", "glider_type", "glider_id", "competition_id",
                "competition_class"}

\* (mutant) an option's record written whether the option is set or not
always_written(opts, name, rec) == <<Rec(rec, <<>>, <<CR, LF>>)>>

\* the record an option writes when it is set (lines 848-853, 857-860)
Optional(opts, name, rec) ==
    IF name \in opts THEN <<Rec(rec, <<>>, <<CR, LF>>)>> ELSE <<>>

\* lines 845, 868: the HFDTE record of a struct tm
hfdte(tm) ==
    Rec("HFDTE", <<tm.tm_mday, tm.tm_mon + 1, (tm.tm_year + 1900) % 100>>, <<LF>>)

\* line 843: the time the header's date is taken from
header_time(trk) == (IF trk = <<>> THEN 0 ELSE trk[1].time) + GarminEpoch

\* lines 842-860: the A record and the H records
igc_header(trk, opts) ==
    <<Rec("A", <<>>, <<CR, LF>>),
      hfdte(gmtime(header_time(trk))),
      Rec("HFFXA100", <<>>, <<CR, LF>>)>>
    \o Optional(opts, "pilot", "HPPLTPILOT")
    \o Optional(opts, "glider_type", "HPGTYGLIDERTYPE")
    \o Optional(opts, "glider_id", "HPGIDGLIDERID")
    \o <<Rec("HDTM100GPSDATUM", <<>>, <<CR, LF>>),
         Rec("HFRFWFIRMWAREREVISION", <<>>, <<CR, LF>>),
         Rec("HFFTYFRTYPE", <<>>, <<CR, LF>>)>>
    \o Optional(opts, "competition_id", "HPCIDCOMPETITIONID")
    \o Optional(opts, "competition_class", "HPCCLCOMPETITIONCLASS")

\* (mutant) a point is dropped when either coordinate is the sentinel
skip_either(p) ==
    \/ p.lat = NoPosn \/ p.lon = NoPosn
    \/ float_to_double(p.alt) = Double_1e25

\* line 863: the points the loop passes over
skip_point(p) ==
    \/ p.lat = NoPosn /\ p.lon = NoPosn
    \/ float_to_double(p.alt) = Double_1e25

\* (mutant) the date is taken to change on the day of the month alone
mday_differs(tm, last) == tm.tm_mday > last.tm_mday

\* line 867: the date of tm is not the date of last_tm
date_differs(tm, last) ==
    \/ tm.tm_year # last.tm_year
    \/ tm.tm_mon # last.tm_mon
    \/ tm.tm_mday # last.tm_mday

\* lines 865-883 for point k, which is not passed over
igc_point(trk, k, last) ==
    (IF date_differs(gmtime(trk[k].time + GarminEpoch), last)
     THEN <<hfdte(gmtime(trk[k].time + GarminEpoch))>> ELSE <<>>)
    \o <<Rec("B", <<k>>, <<CR, LF>>)>>

\* lines 862-884: the loop over the points from point k, with last_tm
RECURSIVE igc_points(_, _, _)
igc_points(trk, k, last) ==
    IF k > Len(trk) THEN <<>>
    ELSE IF skip_point(trk[k]) THEN igc_points(trk, k + 1, last)
    ELSE igc_point(trk, k, last)
         \o igc_points(trk, k + 1, gmtime(trk[k].time + GarminEpoch))

\* everything garmini_write_igc writes for the points trk
write_igc(trk, opts) ==
    igc_header(trk, opts) \o igc_points(trk, 1, gmtime(header_time(trk)))

\* garmini_igc holds the track it downloaded
IgcInit ==
    /\ pc = "have_track"
    /\ rx = <<>> /\ tx = <<>> /\ nwrites = 0 /\ log = <<>>
    /\ dev = [mode |-> "idle", owes |-> None]
    /\ packet = NoPacket
    /\ product_data = ProductDataOf(50) /\ protocols = <<>>
    /\ trk_hdr = NoProtocol /\ trk_data = NoProtocol
    /\ announced = <<>> /\ records = 0 /\ i = 0 /\ calls = <<>>
    /\ warnings = 0 /\ timeouts = 0 /\ junk = 0 /\ unacked = <<>>
    /\ err = ""
    /\ f_res = [st |-> "none", rest |-> <<>>, pkt |-> NoPacket]
    /\ f_line = NoLine /\ f_pkt = NoPacket /\ f_tail = <<>>
    /\ command \in {"igc", "download"} /\ power_off = FALSE /\ unit = "garmini.c"
    /\ track \in SeqsUpTo(TrkPoints, MaxPoints)
    /\ options \in SUBSET OptionNames
    /\ file = <<>> /\ files = {} /\ turn = FALSE

\* garmini_igc: garmini_write_igc(stdout, garmin, track->begin, track->end)
garmini_write_igc ==
    /\ pc = "have_track" /\ command = "igc"
    /\ file' = write_igc(track, options)
    /\ pc' = "exit"
    /\ UNCHANGED <<io, packet, session, args, turn, framing, track, options, files,
                   warnings, junk, err>>

\* lines 916-941: the files garmini_download writes for the track it holds;
\* the loop over the flights stands between #if 0 and #endif
download_files(trk) == {}

\* garmini_download behind garmini_transfer_trk
garmini_download ==
    /\ pc = "have_track" /\ command = "download"
    /\ files' = download_files(track)
    /\ pc' = "exit"
    /\ UNCHANGED <<io, packet, session, args, turn, framing, track, options, file,
                   warnings, junk, err>>

IgcNext == garmini_write_igc \/ garmini_download

SpecIgc == IgcInit /\ [][IgcNext]_vars

(* ------------------------------------------------- the decoder's inputs *)

\* the records a device may send: a position in both hemispheres, the
\* position of a point without a fix, the altitudes 0, 1234.5 and 1.0e25
DecodeRecords ==
    [lat : {1073741824, NoPosn, 0 - 1}, lon : {0 - 1073741824, NoPosn},
     time : {0, 100, 86400}, alt : {0, 1150963712, Float_1e25}]

\* garmin_each is about to hand a packet of the transfer to the callback;
\* f_line holds the record the device encoded
DecodeInit ==
    /\ pc = "callback"
    /\ rx = <<>> /\ tx = <<>> /\ nwrites = 0 /\ log = <<>>
    /\ dev = [mode |-> "idle", owes |-> None]
    /\ product_data = ProductDataOf(50) /\ protocols = <<>>
    /\ trk_hdr = NoProtocol
    /\ trk_data \in {Proto(Tag_Data_Prot_Id, f) : f \in {300, 301, 302, 303, 304}}
    /\ \E r \in DecodeRecords :
         /\ f_line = [kind |-> "trk", arg |-> trk_data.data, fields |-> r,
                      bytes |-> trk_record(trk_data.data, r)]
         /\ packet \in {Packet(Pid_Trk_Data, f_line.bytes), TrkHdr}
    /\ announced = <<>> /\ records = 1 /\ i = 0 /\ calls = <<>>
    /\ warnings = 0 /\ timeouts = 0 /\ junk = 0 /\ unacked = <<>>
    /\ err = ""
    /\ f_res = [st |-> "none", rest |-> <<>>, pkt |-> NoPacket]
    /\ f_pkt = NoPacket /\ f_tail = <<>>
    /\ command = "igc" /\ power_off = FALSE /\ unit = "garmini.c"
    /\ track = <<>> /\ options = {} /\ file = <<>> /\ files = {} /\ turn = FALSE

\* garmin_transfer_trk_callback(data, i, records, packet), with
\* garmini_track_push as the callback behind it
garmin_transfer_trk_callback ==
    /\ pc = "callback"
    /\ track' = trk_callback(track, trk_data.data, packet)
    /\ calls' = Append(calls, <<i, records>>)
    /\ pc' = "called"
    /\ UNCHANGED <<io, packet, product_data, protocols, trk_hdr, trk_data,
                   announced, records, i, args, turn, framing, options, file, files,
                   warnings, junk, err>>

SpecDecode == DecodeInit /\ [][garmin_transfer_trk_callback]_vars

(* ---------------------------------------------------------------- claims *)

LastLog == log[Len(log)]

\* a line of the log: the host read a packet / the host wrote a packet
IsRead(e)  == e.dir = "<"
IsWrite(e) == e.dir = ">"
\* the host wrote a packet of its own (a request or a command), not an ack
IsHostPacket(e) == IsWrite(e) /\ e.id # Pid_Ack_Byte
\* line a is the host's acknowledgement of the packet read in line e
IsAckOf(a, e) == IsWrite(a) /\ a.id = Pid_Ack_Byte /\ a.data = U16LE(e.id)

\* the log ends with these lines
LogEndsWith(ls) ==
    /\ Len(log) >= Len(ls)
    /\ SubSeq(log, Len(log) - Len(ls) + 1, Len(log)) = ls

\* C1: framing round trip.  Once garmin_read_packet has read the line that
\* garmin_write_packet(f_pkt) wrote, it has returned a packet (no EOF, no
\* fatal error) with the id, the size and the size payload bytes of f_pkt,
\* and exactly the frame is gone from the line: what followed it is left.
C1_FramingRoundTrip ==
    pc = "frame_done" =>
        /\ f_res.st = "ok"
        /\ f_res.pkt.id = f_pkt.id
        /\ f_res.pkt.size = f_pkt.size
        /\ Payload(f_res.pkt) = Payload(f_pkt)
        /\ f_res.rest = f_tail
        /\ rx = f_tail

\* a 16-byte payload of DLE bytes under a DLE id has made the round trip,
\* with bytes behind the frame
C1_Witness ==
    /\ pc = "frame_done"
    /\ f_pkt.id = DLE /\ f_pkt.size = DLE /\ f_pkt.data[DLE] = DLE
    /\ f_tail = <<ETX, 7>>
    /\ f_res.st = "ok"

\* C2: every packet the host receives through garmin_read_packet_ack (the
\* handshake, the waits for Pid_Records and Pid_Xfer_Cmplt, the record loop)
\* is acknowledged exactly once, and before anything else is read: in the
\* log each such read is followed at once by the write of the ack naming its
\* id, and each ack the host writes follows at once the read it names.  The
\* one packet read without garmin_read_packet_ack is the reply to a packet
\* the host wrote; when that is not a Pid_Ack_Byte packet the process ends
\* there and reads nothing more.
C2_AckedOnceBeforeNextRead ==
    \A k \in 2..Len(log) :
        /\ (IsRead(log[k]) /\ ~IsHostPacket(log[k - 1])) =>
               (k < Len(log) /\ IsAckOf(log[k + 1], log[k]))
        /\ (IsRead(log[k]) /\ IsHostPacket(log[k - 1])
                /\ log[k].id # Pid_Ack_Byte) =>
               (k = Len(log) /\ err # "")
        /\ (IsWrite(log[k]) /\ log[k].id = Pid_Ack_Byte) =>
               (IsRead(log[k - 1]) /\ IsAckOf(log[k], log[k - 1]))

\* two track points have been read and acknowledged one after the other
C2_Witness ==
    /\ pc = "each_cmplt" /\ err = "" /\ Len(log) >= 4
    /\ LogEndsWith(<<LogLine("<", TrkData), LogLine(">", AckFor(TrkData)),
                     LogLine("<", TrkData), LogLine(">", AckFor(TrkData))>>)

WritePacketAckReturned ==
    /\ err = ""
    /\ \/ pc = "new_product" /\ packet.id = Pid_Product_Rqst
       \/ pc = "each_records" /\ packet.id = Pid_Command_Data

\* C4: ack symmetry.  Whenever garmin_write_packet_ack(p) has returned, the
\* last two lines of the log are the write of p and the read of one packet,
\* whose id is Pid_Ack_Byte and whose payload, of 1 or 2 bytes, is p.id; so
\* after any other reply the call has not returned.
C4_AckSymmetry ==
    WritePacketAckReturned =>
        /\ Len(log) >= 2
        /\ log[Len(log) - 1] = LogLine(">", packet)
        /\ IsRead(LastLog) /\ LastLog.id = Pid_Ack_Byte
        /\ \/ LastLog.data = <<packet.id>>
           \/ LastLog.data = U16LE(packet.id)

\* C5: transfer count.  Once garmin_each has returned, the callback has been
\* invoked exactly N times, with (i, records) = (0, N), (1, N) .. (N-1, N) in
\* this order, N being the little-endian u16 in the Pid_Records payload, and
\* the last packet read and acknowledged was Pid_Xfer_Cmplt.  While the loop
\* runs the calls made so far are the first i of these.
C5_TransferCount ==
    /\ (pc \in {"exit", "done"} /\ command # "id") =>
        /\ Len(announced) = 2
        /\ calls = [k \in 1..LoadU16(announced) |-> <<k - 1, LoadU16(announced)>>]
        /\ \E k \in 1..(Len(log) - 1) :
              /\ IsRead(log[k]) /\ log[k].id = Pid_Xfer_Cmplt
              /\ IsAckOf(log[k + 1], log[k])
              /\ \A j \in (k + 2)..Len(log) : IsHostPacket(log[j])
    /\ (pc \in {"each_loop", "each_cmplt"}) =>
        /\ calls = [k \in 1..i |-> <<k - 1, records>>]
        /\ records = LoadU16(announced)
        /\ i <= records
        /\ (pc = "each_cmplt" => i = records)

\* garmin_each has returned after MaxRecords records
C5_Witness ==
    /\ pc = "exit" /\ command = "igc"
    /\ announced = U16LE(MaxRecords)
    /\ Len(calls) = MaxRecords

HandshakePcs == {"new_rqst", "new_ack", "new_product", "new_ext", "new_array", "new_last"}
FramePcs == {"frame_write", "frame_read", "frame_done"}

\* the packet garmin_new tested last is the one garmin_read_packet clears
\* and leaves when it returns EOF: no packet came where one was awaited
NoPacketCame == packet.id = 0 /\ packet.size = 0

HasProtocol(tag, data) ==
    \E k \in 1..Len(protocols) : protocols[k] = [tag |-> tag, data |-> data]

\* protocol arrays that name L001 and A010
GoodArrays == {ArrayFull, ArrayLegacy, ArrayCut}

\* Pid_Product_Data and, directly behind it, this Pid_Protocol_Array packet
\* have been read and acknowledged
ArrayBehindProductData(a) ==
    LogEndsWith(<<LogLine("<", ProductData), LogLine(">", AckFor(ProductData)),
                  LogLine("<", a), LogLine(">", AckFor(a))>>)

\* Pid_Ext_Product_Data and, directly behind it, this Pid_Protocol_Array
\* packet have been read and acknowledged
ArrayBehindExt(a) ==
    LogEndsWith(<<LogLine("<", ExtProductData), LogLine(">", AckFor(ExtProductData)),
                  LogLine("<", a), LogLine(">", AckFor(a))>>)

\* C6: handshake without extended product data.  When the device has
\* acknowledged Pid_Product_Rqst, sent Pid_Product_Data and then directly
\* the Pid_Protocol_Array of P000, L001, A010, A300, D300, garmin_new is in
\* no fatal error and has stored the five entries.
C6_HandshakeWithoutExt ==
    (pc \in {"new_ext", "new_array", "new_last"}
        /\ ArrayBehindProductData(ArrayFull)) =>
        /\ err = ""
        /\ protocols = Protocols(ArrayFull.data)
        /\ Len(protocols) = 5

\* C7: Pid_Ext_Product_Data and Pid_Protocol_Array in either order.  Whether
\* the protocol array comes behind Pid_Ext_Product_Data or directly behind
\* Pid_Product_Data (with Pid_Ext_Product_Data still to come), garmin_new is
\* in no fatal error once it has read it and has stored the array sent.
C7_EitherOrder ==
    \A a \in GoodArrays :
        (\/ pc \in {"new_array", "new_last"} /\ ArrayBehindExt(a)
         \/ pc \in {"new_ext", "new_array", "new_last"} /\ ArrayBehindProductData(a)) =>
            /\ err = ""
            /\ protocols = Protocols(a.data)

\* C8: clean EOF in the handshake.  When the read behind Pid_Product_Data
\* times out at the top of a frame, garmin_new raises no "unexpected packet"
\* error and goes on with an empty protocol array.
C8_CleanEOF ==
    (pc = "new_ext" /\ NoPacketCame
        /\ LogEndsWith(<<LogLine("<", ProductData), LogLine(">", AckFor(ProductData))>>)) =>
        /\ err # "unexpected packet"
        /\ protocols = <<>>

\* C9: legacy devices.  For a device whose product id is in the legacy list
\* and which sends Pid_Product_Data (and possibly Pid_Ext_Product_Data) but
\* no Pid_Protocol_Array, neither session creation nor the track download
\* behind it ends in a fatal error, and the records are decoded as D300.
C9_LegacyDevice ==
    /\ (pc \in {"new_ext", "new_array"} /\ NoPacketCame /\ protocols = <<>>
            /\ product_id_of(product_data) \in supported_product_ids) =>
           err = ""
    /\ (pc \notin HandshakePcs \cup FramePcs /\ protocols = <<>>
            /\ product_id_of(product_data) \in supported_product_ids
            /\ trk_data # NoProtocol) =>
           (err = "" /\ trk_data = [tag |-> Tag_Data_Prot_Id, data |-> 300])

\* C10: garmin_new returns a session only with L001 and A010 in the stored
\* protocol array.  Past garmin_new the array holds ('L', 1) and ('A', 10);
\* each of the two fatal errors of the verification comes with its entry
\* missing; and garmin_new stays behind a stored array without either outcome
\* only until the read of line 348 is done.
C10_SessionOnlyWithL001A010 ==
    /\ pc \notin HandshakePcs \cup FramePcs =>
          HasProtocol(Tag_Link_Prot_Id, 1) /\ HasProtocol(Tag_Appl_Prot_Id, 10)
    /\ err = "device does not support Link Protocol L001" =>
          pc = "new_last" /\ ~HasProtocol(Tag_Link_Prot_Id, 1)
    /\ err = "device does not support Device Command Protocol A010" =>
          /\ pc = "new_last"
          /\ HasProtocol(Tag_Link_Prot_Id, 1) /\ ~HasProtocol(Tag_Appl_Prot_Id, 10)
    /\ (pc = "new_last" /\ err = "") =>
          /\ packet.id = Pid_Protocol_Array
          /\ protocols = Protocols(Payload(packet))
          /\ LogEndsWith(<<LogLine("<", packet), LogLine(">", AckFor(packet))>>)

\* garmin_new has ended the process over an array that names L001 and not A010
C10_Witness ==
    /\ pc = "new_last"
    /\ err = "device does not support Device Command Protocol A010"
    /\ protocols = Protocols(ArrayNoA010.data)

ExpectPcs == {"new_product", "each_records", "each_cmplt"}

\* the log ends with the read of a packet with this id and its ack
ReadAndAcked(id) ==
    /\ Len(log) >= 2
    /\ IsRead(log[Len(log) - 1]) /\ log[Len(log) - 1].id = id
    /\ IsAckOf(LastLog, log[Len(log) - 1])

\* C11: garmin_expect_packet_ack(id) returns only when a packet with the
\* awaited id has been read and acknowledged, and a packet with another id
\* that arrives before it is read, acknowledged and skipped with a warning:
\* where the function runs, reading a packet never ends the process with
\* "unexpected packet".
C11_ExpectSkipsOthers ==
    /\ (pc \in ExpectPcs /\ ~NoPacketCame) => err # "unexpected packet"
    /\ (pc = "new_ext" /\ err = "") => ReadAndAcked(Pid_Product_Data)
    /\ (pc = "exit" /\ command # "id") => ReadAndAcked(Pid_Xfer_Cmplt)

\* the bytes garmin_read_packet took off the line
Consumed == Take(f_line.bytes, Len(f_line.bytes) - Len(f_res.rest))

\* garmin_read_packet_ack delivered nothing and wrote nothing
NothingDelivered == f_res.st # "ok" /\ f_res.wrote = <<>> /\ tx = <<>> /\ nwrites = 0

\* C12: checksum.  garmin_read_packet returns a packet only when id, size,
\* payload bytes and the checksum byte it read add up to 0 modulo 256; a
\* frame whose checksum byte is off (by one, in either direction) ends in the
\* fatal error "checksum failed", with no packet delivered and no ack written.
C12_ChecksumLaw ==
    pc = "line_done" =>
        /\ f_res.st = "ok" =>
              (f_res.pkt.id + f_res.pkt.size + Sum(Payload(f_res.pkt))
                  + Consumed[Len(Consumed) - 2]) % 256 = 0
        /\ f_line.kind = "checksum" =>
              (f_res.st = "checksum failed" /\ err = "checksum failed"
                  /\ NothingDelivered)

\* a frame with a DLE payload byte and a checksum one too high has been read
C12_Witness ==
    /\ pc = "line_done"
    /\ f_line.kind = "checksum" /\ f_line.arg = 1
    /\ f_pkt.size = 2 /\ f_pkt.data[1] = DLE
    /\ err = "checksum failed"

\* C13: on-wire frame form.  garmin_read_packet returns a packet only when
\* the bytes it consumed start with DLE and end with DLE ETX; a line whose
\* first byte is not DLE, or whose trailer is not DLE ETX, yields no packet.
C13_FrameForm ==
    pc = "line_done" =>
        /\ f_res.st = "ok" =>
              /\ Consumed[1] = DLE
              /\ Consumed[Len(Consumed) - 1] = DLE
              /\ Consumed[Len(Consumed)] = ETX
        /\ f_line.kind \in {"first", "dle", "etx"} => f_res.st # "ok"

\* C15: a lone DLE.  When id, size or a payload byte is a DLE that the line
\* carries once, followed by a byte that is not DLE, the read ends in the
\* fatal error "expected DLE" and no packet is returned.  (A lone DLE in the
\* checksum position is followed by the DLE of the trailer.)
C15_LoneDLE ==
    (pc = "line_done" /\ f_line.kind = "lone" /\ f_line.arg < Len(f_line.fields)
        /\ f_line.fields[f_line.arg + 1] # DLE) =>
        (f_res.st = "expected DLE" /\ err = "expected DLE" /\ NothingDelivered)

\* a lone DLE as the first of two payload bytes has been read
C15_Witness ==
    /\ pc = "line_done"
    /\ f_line.kind = "lone" /\ f_line.arg = 3
    /\ f_pkt.size = 2 /\ f_pkt.data = <<DLE, ETX>>
    /\ err = "expected DLE"

\* C16: read timeouts.  When the line is silent at the top of a frame,
\* garmin_read_packet returns EOF without an error and nothing is written;
\* when the line falls silent after the first byte of a frame, anywhere
\* before its end, the process ends in a fatal error and no packet is
\* returned.
C16_Timeouts ==
    (pc = "line_done" /\ f_line.kind = "cut") =>
        IF f_line.arg = 0
        THEN f_res.st = "eof" /\ ReturnOf(f_res) = EOF /\ err = ""
             /\ f_res.wrote = <<>> /\ tx = <<>> /\ nwrites = 0
        ELSE Fatal(f_res) /\ err # "" /\ NothingDelivered

\* a frame that stops before its ETX has been read
C16_Witness ==
    /\ pc = "line_done"
    /\ f_line.kind = "cut" /\ f_line.arg = Len(Wire(DLE, f_line.fields, 0, DLE, ETX)) - 1
    /\ f_pkt.size = 2
    /\ err = "incomplete packet"

\* C17: garmin_read_packet_ack.  For a packet it reads it writes exactly one
\* frame, that of a packet with id Pid_Ack_Byte, size 2 and the id read as a
\* little-endian u16, and returns that id; on EOF it writes nothing and
\* returns EOF.
C17_ReadPacketAck ==
    pc = "line_done" =>
        /\ f_res.st = "ok" =>
              /\ f_res.wrote =
                    <<Wire(DLE, Fields(Packet(Pid_Ack_Byte,
                                  <<f_res.pkt.id % 256, f_res.pkt.id \div 256>>)),
                           0, DLE, ETX)>>
              /\ tx = f_res.wrote[1] /\ nwrites = 1
              /\ ReturnOf(f_res) = f_res.pkt.id
              /\ LastLog = [dir |-> ">", id |-> Pid_Ack_Byte,
                            data |-> <<f_res.pkt.id % 256, f_res.pkt.id \div 256>>]
        /\ f_res.st = "eof" =>
              /\ f_res.wrote = <<>> /\ tx = <<>> /\ nwrites = 0
              /\ ReturnOf(f_res) = EOF

\* a packet with id DLE has been read and acknowledged
C17_Witness ==
    /\ pc = "line_done"
    /\ f_res.st = "ok" /\ f_res.pkt.id = DLE
    /\ nwrites = 1

\* the frame garmin_write_packet(f_pkt) has put on the line, and what lies
\* between its leading DLE and the DLE of its trailer
WrittenFrame == Take(rx, Len(rx) - Len(f_tail))
Stuffed == SubSeq(WrittenFrame, 2, Len(WrittenFrame) - 2)

\* every DLE of s lies in a run of even length
RECURSIVE EvenRuns(_)
EvenRuns(s) ==
    IF s = <<>> THEN TRUE
    ELSE IF Head(s) # DLE THEN EvenRuns(Tail(s))
    ELSE Len(s) >= 2 /\ s[2] = DLE /\ EvenRuns(Drop(s, 2))

DLEs(s) == Cardinality({k \in 1..Len(s) : s[k] = DLE})

\* C14: DLE stuffing of the encoder.  In a frame garmin_write_packet wrote,
\* between the leading DLE and the DLE of the trailer every 0x10 lies in a
\* run of even length, and every 0x10 among id, size, payload and checksum
\* is there as exactly two bytes, every other value as one.
C14_StuffingLaw ==
    pc = "frame_read" =>
        /\ Len(WrittenFrame) >= 6
        /\ WrittenFrame[1] = DLE
        /\ WrittenFrame[Len(WrittenFrame) - 1] = DLE
        /\ WrittenFrame[Len(WrittenFrame)] = ETX
        /\ EvenRuns(Stuffed)
        /\ DLEs(Stuffed) = 2 * DLEs(Fields(f_pkt))
        /\ Len(Stuffed) = Len(Fields(f_pkt)) + DLEs(Fields(f_pkt))
        /\ Stuffed = WireFields(Fields(f_pkt), 0)

\* a frame whose checksum is DLE, next to the DLE of the trailer, has been
\* written in front of a further DLE
C14_Witness ==
    /\ pc = "frame_read"
    /\ f_pkt.id = 240 /\ f_pkt.size = 0
    /\ Fields(f_pkt)[Len(Fields(f_pkt))] = DLE
    /\ f_tail = <<DLE>>

TransferTrkCommand == Packet(Pid_Command_Data, U16LE(Cmnd_Transfer_Trk))

\* C18: the resolver's output.  Whenever garmin_transfer_trk has issued the
\* Transfer-Trk command, the track-point protocol it resolved is one entry
\* with tag 'D' and data in 300..304 and the track-header protocol is unset
\* (its tag is 0, as the memset left it) or has tag 'D' and data in
\* {310, 311, 312}; otherwise the call has ended in the fatal error before
\* anything was written.
C18_ResolverOutput ==
    /\ pc = "each_ack" =>
          /\ err = ""
          /\ trk_data.tag = Tag_Data_Prot_Id
          /\ trk_data.data \in {300, 301, 302, 303, 304}
          /\ \/ trk_hdr.tag = 0
             \/ trk_hdr.tag = Tag_Data_Prot_Id /\ trk_hdr.data \in {310, 311, 312}
          /\ log = <<LogLine(">", TransferTrkCommand)>>
    /\ pc = "main" =>
          \/ err = "" /\ nwrites = 0 /\ trk_data = NoProtocol
          \/ /\ err = "unsupported track transfer protocol"
             /\ nwrites = 0 /\ log = <<>>

\* the command has been issued for a device that lists A301 with D310, D301
C18_Witness ==
    /\ pc = "each_ack"
    /\ trk_hdr = Proto(Tag_Data_Prot_Id, 310)
    /\ trk_data = Proto(Tag_Data_Prot_Id, 301)

\* the protocol array lists none of A300, A301, A302: the scan selects nothing
NoTrackApplication ==
    \A k \in 1..Len(protocols) :
        ~(protocols[k].tag = Tag_Appl_Prot_Id /\ protocols[k].data \in {300, 301, 302})

\* C19: the legacy fallback.  When the scan selected no track-point protocol,
\* for a listed product id (50, one of the 40) the resolver selects
\* ('D', 300) and the command is issued; for a product id that is not listed
\* (51) the call ends in "unsupported track transfer protocol".
C19_LegacyFallback ==
    /\ Cardinality(supported_product_ids) = 40
    /\ (NoTrackApplication /\ (pc # "main" \/ err # "")) =>
          IF product_id_of(product_data) = 50
          THEN /\ pc = "each_ack" /\ err = ""
               /\ trk_data = Proto(Tag_Data_Prot_Id, 300)
               /\ trk_hdr = NoProtocol
               /\ log = <<LogLine(">", TransferTrkCommand)>>
          ELSE /\ pc = "main" /\ err = "unsupported track transfer protocol"
               /\ nwrites = 0

\* the command has been issued for a listed device whose array names no
\* track protocol at all
C19_Witness ==
    /\ pc = "each_ack"
    /\ NoTrackApplication
    /\ Len(protocols) = 3 + MaxProtocols
    /\ product_id_of(product_data) = 50
    /\ trk_data = Proto(Tag_Data_Prot_Id, 300)

\* C20: every record garmini_write_igc writes (the A record, every H record
\* with each HFDTE among them, every B record) ends with the two bytes CR LF.
C20_RecordsEndCRLF ==
    \A k \in 1..Len(file) : file[k].eol = <<CR, LF>>

\* garmini_write_igc has returned
Written == pc = "exit" /\ command = "igc"

\* the positions of the B records of the output, and the point of a B record
BRecords == {k \in 1..Len(file) : file[k].name = "B"}
PointOf(k) == track[file[k].arg[1]]

\* the UTC date of a point, and the same as an HFDTE record prints it
DateOf(p) ==
    <<gmtime(p.time + GarminEpoch).tm_year + 1900,
      gmtime(p.time + GarminEpoch).tm_mon + 1,
      gmtime(p.time + GarminEpoch).tm_mday>>
Printed(date) == <<date[3], date[2], date[1] % 100>>

\* C21: for an empty track the header's date record is HFDTE000000.
C21_EmptyTrackDate ==
    (Written /\ track = <<>>) =>
        file[2].name = "HFDTE" /\ file[2].arg = <<0, 0, 0>>

\* the points the sentinel checks are to drop
Dropped(p) == (p.lat = NoPosn /\ p.lon = NoPosn) \/ p.alt = Float_1e25
FirstValid == CHOOSE k \in 1..Len(track) :
                  ~Dropped(track[k]) /\ \A j \in 1..(k - 1) : Dropped(track[j])

\* C22: for a track with a valid point the header's HFDTE record carries the
\* date of the first point that is not dropped, and no other HFDTE record
\* comes before the first B record.
C22_HeaderDate ==
    (Written /\ \E k \in 1..Len(track) : ~Dropped(track[k])) =>
        /\ file[2].name = "HFDTE"
        /\ file[2].arg = Printed(DateOf(track[FirstValid]))
        /\ \A k \in 3..Len(file) :
              file[k].name = "HFDTE" => \E b \in BRecords : b < k

\* the HFDTE records between positions a and b of the output
DatesBetween(a, b) == {k \in (a + 1)..(b - 1) : file[k].name = "HFDTE"}

\* C23: between two consecutive B records whose dates differ there is exactly
\* one HFDTE record and it carries the date of the later one; between two
\* consecutive B records of the same date there is none.
C23_DateRollover ==
    Written =>
        \A a, b \in BRecords :
            (a < b /\ \A c \in BRecords : ~(a < c /\ c < b)) =>
                IF DateOf(PointOf(a)) # DateOf(PointOf(b))
                THEN /\ Cardinality(DatesBetween(a, b)) = 1
                     /\ \A k \in DatesBetween(a, b) :
                           file[k].arg = Printed(DateOf(PointOf(b)))
                ELSE DatesBetween(a, b) = {}

\* a point of one day and then a point of the next day were written
C23_Witness ==
    /\ Written
    /\ Len(track) = 2
    /\ \E a \in BRecords :
          /\ a + 2 \in BRecords
          /\ file[a + 1].name = "HFDTE"
          /\ file[a + 1].arg = <<1, 1, 90>>

\* the B records written for point k
BRecordsOf(k) == {b \in BRecords : file[b].arg = <<k>>}

\* C24: a point whose position is (0x7FFFFFFF, 0x7FFFFFFF) produces no B
\* record and no HFDTE record (every HFDTE record behind the header stands
\* in front of the B record of the point whose date it carries); a point
\* whose position is not that sentinel and whose altitude is not the
\* no-altitude value produces exactly one B record.
C24_PositionSentinel ==
    Written =>
        /\ \A k \in 1..Len(track) :
              /\ (track[k].lat = NoPosn /\ track[k].lon = NoPosn) =>
                    BRecordsOf(k) = {}
              /\ (~(track[k].lat = NoPosn /\ track[k].lon = NoPosn)
                    /\ track[k].alt # Float_1e25) =>
                    Cardinality(BRecordsOf(k)) = 1
        /\ \A h \in 3..Len(file) :
              file[h].name = "HFDTE" =>
                 /\ h + 1 \in BRecords
                 /\ file[h].arg = Printed(DateOf(PointOf(h + 1)))

\* a point without a position on the next day was passed over, and a point
\* with one coordinate at 0x7FFFFFFF was written
C24_Witness ==
    /\ Written
    /\ Len(track) = 2
    /\ track[1].time = 0 /\ track[1].lat # NoPosn /\ track[1].lon = NoPosn
    /\ track[2].time = 86400 /\ track[2].lat = NoPosn /\ track[2].lon = NoPosn
    /\ BRecordsOf(1) # {} /\ BRecordsOf(2) = {}

\* C25: a point whose float alt is the device's no-altitude value 1.0e25
\* produces no B record.
C25_AltitudeSentinel ==
    Written =>
        \A k \in 1..Len(track) : track[k].alt = Float_1e25 => BRecordsOf(k) = {}

\* the names of the header records for the options that are set
HeaderNames(opts) ==
    <<"A", "HFDTE", "HFFXA100">>
    \o (IF "pilot" \in opts THEN <<"HPPLTPILOT">> ELSE <<>>)
    \o (IF "glider_type" \in opts THEN <<"HPGTYGLIDERTYPE">> ELSE <<>>)
    \o (IF "glider_id" \in opts THEN <<"HPGIDGLIDERID">> ELSE <<>>)
    \o <<"HDTM100GPSDATUM", "HFRFWFIRMWAREREVISION", "HFFTYFRTYPE">>
    \o (IF "competition_id" \in opts THEN <<"HPCIDCOMPETITIONID">> ELSE <<>>)
    \o (IF "competition_class" \in opts THEN <<"HPCCLCOMPETITIONCLASS">> ELSE <<>>)

\* C26: the output starts with one A record and the header records, once
\* each, in the order HFDTE, HFFXA100, HPPLT, HPGTY, HPGID, HDTM100, HFRFW,
\* HFFTY, HPCID, HPCCL, the five optional ones present exactly when their
\* option is set; behind them come only B records and the HFDTE records of
\* the loop, so the header precedes every B record.
C26_HeaderOrder ==
    Written =>
        /\ Len(file) >= Len(HeaderNames(options))
        /\ \A k \in 1..Len(HeaderNames(options)) :
              file[k].name = HeaderNames(options)[k]
        /\ \A k \in (Len(HeaderNames(options)) + 1)..Len(file) :
              file[k].name \in {"B", "HFDTE"}

\* two of the options are set and a point was written
C26_Witness ==
    /\ Written
    /\ options = {"pilot", "competition_id"}
    /\ BRecords # {}
    /\ Len(file) = 8 + Len(track)

\* a line of the log: the host wrote a Pid_Command_Data packet with command 8
IsTurnOff(e) == e = LogLine(">", Packet(Pid_Command_Data, <<8, 0>>))

\* C27: power-off.  With the option set, once the operation has completed
\* and main has gone on, the last thing the host did is the write of one
\* Pid_Command_Data packet with command 8: nothing was read and nothing was
\* written after it, and no earlier packet carried the command.  Without the
\* option, and before the operation has completed, no packet carries
\* command 8.
C27_PowerOff ==
    /\ (pc = "done" /\ power_off) =>
          /\ IsTurnOff(LastLog)
          /\ tx = garmin_write_packet(Packet(Pid_Command_Data, <<8, 0>>))
          /\ \A k \in 1..(Len(log) - 1) : ~IsTurnOff(log[k])
    /\ (~power_off \/ pc # "done") =>
          \A k \in 1..Len(log) : ~IsTurnOff(log[k])

\* the track log was transferred and the device was then turned off
C27_Witness ==
    /\ pc = "done" /\ power_off /\ command = "igc"
    /\ records = MaxRecords
    /\ IsTurnOff(LastLog)
    /\ IsRead(log[Len(log) - 2]) /\ log[Len(log) - 2].id = Pid_Xfer_Cmplt

\* C28: the download operation writes one IGC file per accepted flight of
\* the track, so a track that holds a flight (a point that is written)
\* yields at least one file.
C28_DownloadWritesFiles ==
    (pc = "exit" /\ command = "download"
       /\ \E k \in 1..Len(track) : ~Dropped(track[k])) =>
        files # {}

\* the array holds an 'A' 300 entry as its last entry, or an 'A' 301 or
\* 'A' 302 entry with fewer than two entries behind it
RunsOffTheEnd ==
    \E k \in 1..Len(protocols) :
        /\ protocols[k].tag = Tag_Appl_Prot_Id
        /\ \/ protocols[k].data = 300 /\ k = Len(protocols)
           \/ protocols[k].data \in {301, 302} /\ k + 2 > Len(protocols)

\* C29: once garmin_transfer_trk has ended on such an array, it has ended in
\* "unsupported track transfer protocol" and has written nothing, for a
\* listed product id as for one that is not listed.
C29_ScanRunsOffTheEnd ==
    (RunsOffTheEnd /\ (pc # "main" \/ err # "")) =>
        /\ pc = "main"
        /\ err = "unsupported track transfer protocol"
        /\ nwrites = 0 /\ log = <<>>

\* the call has ended in the error for a listed device whose array ends
\* with 'A' 300 and names no other track protocol
C29_Witness ==
    /\ pc = "main" /\ err = "unsupported track transfer protocol"
    /\ product_id_of(product_data) = 50
    /\ Len(protocols) = 4
    /\ protocols[4] = Proto(Tag_Appl_Prot_Id, 300)

\* C30: track-point decoding.  Once the callback has been handed a
\* Pid_Trk_Data packet, the point it passed on has the posn and the time of
\* the record; under D300 its validity is 'V' and its alt is 0, under D301,
\* D302, D303 and D304 its validity is 'A' and its alt is the record's alt.
C30_TrkPointDecoding ==
    (pc = "called" /\ packet.id = Pid_Trk_Data) =>
        /\ Len(track) = 1
        /\ track[1].lat = f_line.fields.lat
        /\ track[1].lon = f_line.fields.lon
        /\ track[1].time = f_line.fields.time
        /\ IF trk_data.data = 300
           THEN track[1].validity = "V" /\ track[1].alt = 0
           ELSE track[1].validity = "A" /\ track[1].alt = f_line.fields.alt

\* the D301 record posn = (1073741824, -1073741824), time = 100,
\* alt = 1234.5, dpth = 0, new_trk = 0 was decoded
C30_Witness ==
    /\ pc = "called"
    /\ trk_data.data = 301
    /\ packet = Packet(Pid_Trk_Data,
                       <<0, 0, 0, 64, 0, 0, 0, 192, 100, 0, 0, 0,
                         0, 80, 154, 68, 0, 0, 0, 0, 0>>)
    /\ track = <<[time |-> 100, lat |-> 1073741824, lon |-> 0 - 1073741824,
                  alt |-> 1150963712, validity |-> "A"]>>

\* C31: after garmin_read_packet has returned a packet, every byte of its
\* data at an index of size or more is zero: no byte of the packet that was
\* in the buffer before is left.
C31_PacketCleared ==
    (pc = "frame_done" /\ f_res.st = "ok") =>
        \A k \in (f_res.pkt.size + 1)..Len(f_res.pkt.data) : f_res.pkt.data[k] = 0

\* C32: termination under silence.  Whatever the device has sent before it
\* falls silent, the host comes to an end: main returns or the process ends
\* in a fatal error, so garmin_new and garmin_each have both terminated.
C32_TerminatesUnderSilence == <>(pc = "done" \/ err # "")

\* C33: in the record loop every call of the callback is made with a packet
\* that was read and acknowledged in that turn: behind a turn the log ends
\* with the read of the packet the callback was handed and the ack of it, so
\* no call is made for a record that did not arrive.
C33_CallbackOnlyOnArrival ==
    (pc = "each_loop" /\ i >= 1 /\ err = "") =>
        /\ ReadAndAcked(packet.id)
        /\ log[Len(log) - 1].data = Payload(packet)

\* a step of the record loop: the loop counter moves on by one
LoopTurn == i' = i + 1

\* the track after the step is the track before it with one point more, the
\* point of the record the device sends (TrkData)
OnePointMore ==
    /\ Len(track') = Len(track) + 1
    /\ SubSeq(track', 1, Len(track)) = track
    /\ track'[Len(track')].time = 100
    /\ track'[Len(track')].lat = 1073741824
    /\ track'[Len(track')].lon = 0 - 1073741824

Unsupported == err = "unsupported track transfer protocol"

\* C35: the capability error is raised before the transfer starts.  When
\* garmin_transfer_trk has failed with "unsupported track transfer protocol"
\* the call has written nothing (no Pid_Command_Data packet is on the line,
\* in the log or awaiting its ack, and the device has seen no command) and
\* has read nothing (no read wait was made, the packet buffer is untouched).
C35_ErrorBeforeTransfer ==
    Unsupported =>
        /\ pc = "main"
        /\ nwrites = 0 /\ tx = <<>> /\ log = <<>> /\ unacked = <<>>
        /\ dev = [mode |-> "product", owes |-> None]
        /\ rx = <<>> /\ timeouts = 0 /\ ~turn
        /\ packet = NoPacket

\* the call failed on a device that lists A301 with a header format the
\* host does not know
C35_Witness ==
    /\ Unsupported
    /\ \E k \in 1..(Len(protocols) - 2) :
        /\ protocols[k] = Proto(Tag_Appl_Prot_Id, 301)
        /\ protocols[k + 1] = Proto(Tag_Data_Prot_Id, 300)
        /\ protocols[k + 2] = Proto(Tag_Data_Prot_Id, 301)

====
